---- MODULE Spec2Model ----
(***************************************************************************)
(* The file-based task queue of ai_employee: the orchestrator              *)
(* (agent/orchestrator.py), the reasoning loop (agent/ralph_loop.py), the  *)
(* skill dispatcher (agent/skills.py) and the role capabilities            *)
(* (platform/capabilities.py), for the two roles "cloud" and "local"       *)
(* working on one vault.                                                    *)
(***************************************************************************)
EXTENDS Integers, Sequences, FiniteSets, TLC

VARIABLES
    fs,        \* the vault: a set of files [dir, name, id, home, content]
    units,     \* per role: the submitted, unfinished units of work (futures)
    plans,     \* the plan documents in Plans/: [name, by]
    calls,     \* skill functions actually executed: [role, task, tool, input]
    audit,     \* per role: the audit log, a sequence of records
    hist,      \* per task: the names its artifact has had, oldest first
    gated,     \* invocations the loop's gates substituted: [role, task, gate, tool, input]
    scans,     \* the scans, of both orchestrators, that dispatched something
    logfile,   \* the lines of the Logs/audit.jsonl a report is made from
    report     \* what the last read_last_n_days returned

vars == <<fs, units, plans, calls, audit, hist, gated, scans, logfile, report>>

-----------------------------------------------------------------------------
(* Program constants *)

MAX_WORKERS == 3
MAX_RETRIES == 3
MAX_TURNS == 10
\* the literal 500 of the payment gate, in cents
PAYMENT_LIMIT == 50000

Roles == {"cloud", "local"}

\* DOMAIN_MAP, with the directories named after Needs_Action/<domain>
DOMAIN_MAP == [cloud |-> <<"NA_email", "NA_social">>, local |-> <<"NA_finance", "NA_files">>]

SEND_TOOLS == {"send_email", "reply_email", "post_linkedin", "post_facebook",
               "post_instagram", "post_twitter", "post_payment", "create_invoice"}

CLOUD_SKILLS == {"write_plan", "request_approval", "label_email",
                 "get_accounting_report", "list_contacts"}

SKILL_REGISTRY == SEND_TOOLS \cup CLOUD_SKILLS

\* TOOL_SCHEMAS, each schema by its "name"
TOOL_SCHEMAS == {"send_email", "reply_email", "label_email", "post_linkedin",
                 "post_facebook", "post_instagram", "post_twitter",
                 "create_invoice", "list_contacts", "get_accounting_report",
                 "post_payment", "write_plan", "request_approval"}

\* every role is allowed the whole registry
AllSkills(r) == SKILL_REGISTRY

\* get_allowed_skills() in the process of role r
get_allowed_skills(r) == IF r = "cloud" THEN CLOUD_SKILLS ELSE SKILL_REGISTRY

\* get_tool_schemas(): [t for t in TOOL_SCHEMAS if t["name"] in allowed]
get_tool_schemas(r) == {t \in TOOL_SCHEMAS : t \in get_allowed_skills(r)}

\* DRAFT_ONLY_MODE of a process running as role r
DRAFT_ONLY_MODE(r) == r = "cloud"

\* In_Progress/<agent_id>
IN_PROGRESS_AGENT(r) == IF r = "cloud" THEN "IP_cloud" ELSE "IP_local"

-----------------------------------------------------------------------------
(* Bounds of the model *)

\* the task artifacts the producers drop, by base name
Tasks == {"T1", "T2", "T3", "T4"}

\* the dispatching scans the two orchestrators make, together
MaxScans == 4

\* the same, in the loop specification
MaxLoopScans == 2

\* the turns in which the model asks for tools, in the loop specification
MaxToolTurns == 2

\* the dispatching scans of the handoff specification
MaxHandoffScans == 2

\* the invocations of the dispatcher specification
MaxDispatches == 2

\* the dispatching scans of the turn-budget specification
MaxBudgetScans == 1

\* the dispatching scans of the pool specification
MaxPoolScans == 1

\* the scans of the liveness specification made while units of work are pending
MaxLiveScans == 4

\* the dispatching scans of the invocation-order specification
MaxOrderScans == 1

\* the turns in which the model asks for tools, in the same
MaxOrderTurns == 1

\* the lines of the log file a report is made from
MaxLines == 3

\* the dispatching scans of the approval specification made while a unit
\* of work is pending
MaxApprovalScans == 2

\* the turns in which the model asks for tools, in the same
MaxApprovalTurns == 1

\* the dispatching scans of the prefix specification
MaxPrefixScans == 2

\* the dispatching scans of the restart specification
MaxStaleScans == 2

\* the scans of the held-payment specification made while a unit of work is
\* pending
MaxHeldScans == 1

\* the directories the producers drop them into
Homes == {"NA", "NA_email", "NA_finance"}

\* the bodies of the messages the cloud role is asked to send: a plain one,
\* one with a quote, one holding " -->", one holding a tool marker
Bodies == {<<"hello">>, <<"say", "\"", "hi", "\"">>, <<"a", " -->", "b">>,
           <<"<!-- platinum:tool:", "post_payment", " -->">>}

-----------------------------------------------------------------------------
(* Artifact names.  A name is the stem of the file name (the part before   *)
(* ".md") as a sequence of tokens whose concatenation is the stem; the     *)
(* token "_retry_" is the separator the orchestrator looks for.            *)

RETRY == "_retry_"

\* str(n) for the numbers the model prints
Digits == <<"0", "1", "2", "3", "4", "5", "6", "7", "8", "9">>

Str(n) == Digits[n + 1]

\* int(s) of a token sequence: its value, or -1 for ValueError
ParseInt(toks) ==
    IF Len(toks) = 1 /\ \E n \in 0..9 : Str(n) = toks[1]
    THEN CHOOSE n \in 0..9 : Str(n) = toks[1]
    ELSE -1

HasRetry(stem) == \E i \in 1..Len(stem) : stem[i] = RETRY

\* the index of the last "_retry_" of a stem that has one
LastRetry(stem) == CHOOSE i \in 1..Len(stem) :
    stem[i] = RETRY /\ \A j \in (i+1)..Len(stem) : stem[j] # RETRY

\* stem.rsplit("_retry_", 1): <<before, after>>
RSplit(stem) == LET i == LastRetry(stem)
                IN <<SubSeq(stem, 1, i - 1), SubSeq(stem, i + 1, Len(stem))>>

\* _retry_count reading the number off path.name, ".md" included
RetryCountOfName(stem) == 0

\* _retry_count(path)
RetryCount(stem) ==
    IF HasRetry(stem)
    THEN LET n == ParseInt(RSplit(stem)[2]) IN IF n >= 0 THEN n ELSE 0
    ELSE 0

\* the suffix appended to the whole stem
NoStrip(stem) == stem

\* base = stem.rsplit("_retry_", 1)[0] if "_retry_" in stem else stem
BaseOf(stem) == IF HasRetry(stem) THEN RSplit(stem)[1] ELSE stem

\* the retry name without the base
DropBase(stem) == <<RETRY, Str(RetryCount(stem) + 1)>>

\* new_name = f"{base}_retry_{retries + 1}.md"
RetryName(stem) == BaseOf(stem) \o <<RETRY, Str(RetryCount(stem) + 1)>>

\* retries > MAX_RETRIES
GiveUpLate(retries) == retries > MAX_RETRIES

\* retries + 1 >= MAX_RETRIES
GiveUpEarly(retries) == retries + 1 >= MAX_RETRIES

\* if retries >= MAX_RETRIES
GiveUp(retries) == retries >= MAX_RETRIES

\* task_name.startswith("SEND_APPROVAL_")
IsSendApproval(stem) == stem[1] = "SEND_APPROVAL_"

\* f"PAYMENT_APPROVAL_{task_name.replace('.md', '')}"
PaymentApprovalName(stem) == <<"PAYMENT_APPROVAL_">> \o stem

\* f"SEND_APPROVAL_{task_name.replace('.md', '')}_{tool_name}"
SendApprovalName(stem, tool) == <<"SEND_APPROVAL_">> \o stem \o <<"_", tool>>

\* f"MAX_TURNS_{task_name.replace('.md', '')}"
MaxTurnsName(stem) == <<"MAX_TURNS_">> \o stem

\* the task a name belongs to, "" for an approval file
TaskOf(stem) == IF stem[1] \in Tasks THEN stem[1] ELSE ""

\* task_name.replace(".md", "_Plan.md")
PlanName(stem) == stem \o <<"_Plan">>

-----------------------------------------------------------------------------
(* The vault.  A file is [dir, name, id, home, content]: id is the stem the *)
(* artifact was created under and home the input queue it is claimed from; *)
(* both stay with it through every rename.                                  *)

InputDirs == {"NA", "NA_email", "NA_social", "NA_finance", "NA_files", "Approved"}

QueueDirs == InputDirs \cup {"IP_cloud", "IP_local", "Done", "Rejected", "Pending_Approvals"}

\* a tool input: the body is a text, a sequence of tokens
NoInput == [invoice_id |-> 0, amount |-> 0, body |-> <<>>]

TaskContent == [kind |-> "task", tool |-> "", input |-> NoInput, shown |-> <<>>, text |-> <<>>]

At(f, dir, name) == {x \in f : x.dir = dir /\ x.name = name}

\* Path.exists()
Exists(f, dir, name) == At(f, dir, name) # {}

\* a copy: the file stays at the source path too
RenameCopy(f, dir, name, ddir, dname) ==
    LET x == CHOOSE x \in At(f, dir, name) : TRUE
    IN (f \ At(f, ddir, dname)) \cup {[x EXCEPT !.dir = ddir, !.name = dname]}

\* Path.rename(dest) of an existing source: the file leaves the source path
\* and replaces whatever is at the destination path
Rename(f, dir, name, ddir, dname) ==
    LET x == CHOOSE x \in At(f, dir, name) : TRUE
    IN (f \ (At(f, dir, name) \cup At(f, ddir, dname)))
           \cup {[x EXCEPT !.dir = ddir, !.name = dname]}

\* Path.write_text(): creates the file or replaces its content
WriteText(f, dir, name, content) ==
    (f \ At(f, dir, name))
        \cup {[dir |-> dir, name |-> name, id |-> name, home |-> "Approved", content |-> content]}

\* {p.name for p in directory.glob("*.md")}
NamesIn(f, dir) == {x.name : x \in {y \in f : y.dir = dir}}

-----------------------------------------------------------------------------
(* The handoff encoding.  A text is a sequence of tokens whose              *)
(* concatenation is the text; the tokens below are the pieces of text the   *)
(* markers and the JSON serialisation are made of.                          *)

\* "<!-- platinum:tool:"
TOOL_MARK == "<!-- platinum:tool:"

\* "<!-- platinum:inputs:"
INPUTS_MARK == "<!-- platinum:inputs:"

\* " -->"
END_MARK == " -->"

NL == "\n"

\* the double quote, and what json.dumps writes for one inside a string
QUOTE == "\""

ESC_QUOTE == "\\\""

\* tokens holding white space: \S does not match them
HasSpace(tok) == tok \in {TOOL_MARK, INPUTS_MARK, END_MARK, NL, "**Tool:** ", "**Inputs:** "}

\* the decimal digits of a natural number
RECURSIVE ToDigits(_)
ToDigits(n) == IF n < 10 THEN <<Str(n)>> ELSE ToDigits(n \div 10) \o <<Str(n % 10)>>

\* a JSON string body: the quotes of the text escaped
Escape(text) == [k \in 1..Len(text) |-> IF text[k] = QUOTE THEN ESC_QUOTE ELSE text[k]]

\* the members of json.dumps(tool_input), sep between them
JsonMembers(input, sep) ==
    <<"invoice_id: ">> \o ToDigits(input.invoice_id) \o <<",">> \o sep
    \o <<"amount: ">> \o ToDigits(input.amount) \o <<",">> \o sep
    \o <<"body: ", QUOTE>> \o Escape(input.body) \o <<QUOTE>>

\* json.dumps(tool_input): one line
JsonDumps(input) == <<"{">> \o JsonMembers(input, <<>>) \o <<"}">>

\* json.dumps(tool_input, indent=2): one member per line
JsonDumpsIndent(input) == <<"{", NL>> \o JsonMembers(input, <<NL>>) \o <<NL, "}">>

\* the details of the draft-only gate, as text
SendText(tool, input) ==
    <<"**Tool:** ", tool, NL, "**Inputs:** ", NL>> \o JsonDumpsIndent(input)
    \o <<NL, TOOL_MARK, tool, END_MARK, NL, INPUTS_MARK>> \o JsonDumps(input) \o <<END_MARK, NL>>

\* the details with the markers only, nothing before them
MarkersOnly(tool, input) ==
    <<TOOL_MARK, tool, END_MARK, NL, INPUTS_MARK>> \o JsonDumps(input) \o <<END_MARK, NL>>

\* the places of a token in a text
Places(text, tok) == {i \in 1..Len(text) : text[i] = tok}

\* the matches <<i, j>> of "<!-- platinum:tool:(\S+) -->": the marker at i,
\* one or more tokens without white space, " -->" at j
ToolMatches(text) ==
    UNION {{<<i, j>> : j \in {j \in (i + 2)..Len(text) :
                                /\ text[j] = END_MARK
                                /\ \A k \in (i + 1)..(j - 1) : ~HasSpace(text[k])}}
           : i \in Places(text, TOOL_MARK)}

\* the matches <<i, j>> of "<!-- platinum:inputs:(.+?) -->": the marker at i,
\* the nearest " -->" at j after at least one token, no line break between
InputsMatches(text) ==
    UNION {{<<i, j>> : j \in {j \in (i + 2)..Len(text) :
                                /\ text[j] = END_MARK
                                /\ \A k \in (i + 1)..(j - 1) : text[k] # NL
                                /\ \A k \in (i + 2)..(j - 1) : text[k] # END_MARK}}
           : i \in Places(text, INPUTS_MARK)}

\* re.search: the leftmost match
First(matches) == CHOOSE m \in matches : \A o \in matches : m[1] <= o[1]

Group(text, m) == SubSeq(text, m[1] + 1, m[2] - 1)

\* the JSON values the texts of the model can be the serialisation of
JsonValues == [invoice_id : {0, 7}, amount : {0, PAYMENT_LIMIT, PAYMENT_LIMIT + 1},
               body : Bodies \cup {<<>>}]

\* json.loads(toks) succeeds
IsJson(toks) == \E v \in JsonValues : JsonDumps(v) = toks

\* json.loads(toks) of a text that is valid JSON
JsonLoads(toks) == CHOOSE v \in JsonValues : JsonDumps(v) = toks

\* tool_match and inputs_match are both found
BothMarkers(text) == ToolMatches(text) # {} /\ InputsMatches(text) # {}

\* tool_match.group(1): the name, "?" standing for a name no skill has
ParsedTool(text) ==
    LET g == Group(text, First(ToolMatches(text)))
    IN IF Len(g) = 1 THEN g[1] ELSE "?"

\* inputs_match.group(1)
ParsedInputs(text) == Group(text, First(InputsMatches(text)))

-----------------------------------------------------------------------------
(* The audit sink (audit/logger.py) and the skills (agent/skills.py) *)

\* the record written at the head of the file
LogFirst(log, task, action, input, ok, turn) ==
    <<[task |-> task, action |-> action, input |-> input, ok |-> ok, turn |-> turn,
       plan_written |-> FALSE]>> \o log

\* AuditLogger.log: one record appended
Log(log, task, action, input, ok, turn) ==
    Append(log, [task |-> task, action |-> action, input |-> input, ok |-> ok,
                 turn |-> turn, plan_written |-> FALSE])

\* AuditLogger.log_completion
LogCompletion(log, task, turns, plan_written) ==
    Append(log, [task |-> task, action |-> <<"task_completed">>, input |-> NoInput,
                 ok |-> TRUE, turn |-> turns, plan_written |-> plan_written])

\* datetime.now(timezone.utc) at the time of the report, in days
Now == 10

\* a line of the log file, by what it holds: json is what json.loads makes of
\* the stripped line ("blank" for a line of white space, "invalid" for a
\* JSONDecodeError, else the type of the value), ts what is under the key
\* "ts" of an object ("missing", "number", "garbage" for a string that is no
\* ISO date, "naive" for a date without a timezone, "aware" for one with),
\* day the date of a ts that is one
Line(json, ts, day) == [json |-> json, ts |-> ts, day |-> day]

\* what the body of "for line in f" does with one line: "skip" (continue),
\* "keep" (records.append), "old" (nothing) or "raise" (an exception that
\* the except clause does not name)
LineOutcome(line, cutoff) ==
    IF line.json = "blank" THEN "skip"                 \* if not line: continue
    ELSE IF line.json = "invalid" THEN "skip"          \* json.JSONDecodeError
    ELSE IF line.json # "object" THEN "raise"          \* rec["ts"]: TypeError
    ELSE IF line.ts = "missing" THEN "skip"            \* rec["ts"]: KeyError
    ELSE IF line.ts = "number" THEN "raise"            \* .replace: AttributeError
    ELSE IF line.ts = "garbage" THEN "skip"            \* fromisoformat: ValueError
    ELSE IF line.ts = "naive" THEN "raise"             \* ts >= cutoff: TypeError
    ELSE IF line.day >= cutoff THEN "keep"
    ELSE "old"

\* the report of a read that has not been made
NoReport == [state |-> "none", days |-> 0, records |-> <<>>]

\* AuditLogger.read_last_n_days(days) over the lines of the file: the list
\* returned, or the exception of the first line that raises
read_last_n_days(lines, days) ==
    LET cutoff == Now - days
    IN IF \E k \in 1..Len(lines) : LineOutcome(lines[k], cutoff) = "raise"
       THEN [state |-> "raised", days |-> days, records |-> <<>>]
       ELSE [state |-> "returned", days |-> days,
             records |-> SelectSeq(lines, LAMBDA l : LineOutcome(l, cutoff) = "keep")]

\* f"{amount:.2f}" of an amount in cents: <<units, cents>>
Format2f(amount) == <<amount \div 100, amount % 100>>

\* the details the payment gate files
PaymentDetails(input) ==
    [kind |-> "payment_approval", tool |-> "", input |-> NoInput,
     shown |-> Format2f(input.amount) \o <<input.invoice_id>>, text |-> <<>>]

\* the details the draft-only gate files: both markers, from the invocation
SendDetails(tool, input) ==
    [kind |-> "send_approval", tool |-> tool, input |-> input, shown |-> <<>>,
     text |-> SendText(tool, input)]

\* the details of the turn-budget approval
MaxTurnsDetails == [kind |-> "max_turns", tool |-> "", input |-> NoInput, shown |-> <<>>, text |-> <<>>]

\* the details of an approval the model asks for itself
ReviewDetails == [kind |-> "review", tool |-> "", input |-> NoInput, shown |-> <<>>, text |-> <<>>]

\* the approval file written straight into Approved/
WriteApproved(f, name, details, wrote) ==
    IF wrote THEN WriteText(f, "Approved", name, details) ELSE f

\* request_approval(name, details): the file is written and the result is
\* ok, or the write raises and the result is ok: False (wrote = FALSE)
request_approval(f, name, details, wrote) ==
    IF wrote THEN WriteText(f, "Pending_Approvals", name, details) ELSE f

\* the name the model gives the approval item it asks for itself: the one
\* its answer carries, REVIEW_<task> when the answer leaves it open
ExplicitName(task, b) == IF "name" \in DOMAIN b THEN b.name ELSE <<"REVIEW_">> \o task

\* the details the model gives it: the text its answer carries with the name
ExplicitDetails(b) ==
    IF "name" \in DOMAIN b THEN [ReviewDetails EXCEPT !.text = b.input.body] ELSE ReviewDetails

\* call_skill(name, inputs) in a process of role r: "blocked" by the
\* draft-only block, "unknown" to the registry, or "executed".  imported is
\* the outcome of "from platform.capabilities import DRAFT_ONLY_MODE,
\* SEND_TOOLS": on ImportError the block is passed over.
call_skill(r, tool, imported) ==
    IF imported /\ DRAFT_ONLY_MODE(r) /\ tool \in SEND_TOOLS THEN "blocked"
    ELSE IF tool \notin SKILL_REGISTRY THEN "unknown"
    ELSE "executed"

\* a skill's exception leaves call_skill
Uncaught(good) == ~good

\* call_skill runs fn(**inputs) inside try/except Exception: no failure of a
\* skill (good = FALSE) leaves it as an exception
Escapes(good) == FALSE

\* call_skill: does the dispatcher refuse the skill before running it?  (On
\* the two paths below the import decides nothing: the draft-only gate runs
\* first in the loop, and the direct path is the local role's.)
Refused(r, tool) ==
    \/ DRAFT_ONLY_MODE(r) /\ tool \in SEND_TOOLS
    \/ tool \notin SKILL_REGISTRY

\* dest.write_text(content) of a plan document: written, or replaced
WritePlan(p, name, by) == {x \in p : x.name # name} \cup {[name |-> name, by |-> by]}

\* no payment is held back
Ungated(tool, input) == FALSE

\* a payment of exactly the limit is held back as well
GateAtLimit(tool, input) == tool = "post_payment" /\ input.amount >= PAYMENT_LIMIT

\* the payment gate: tool_name == "post_payment" and amount > 500
PaymentGate(tool, input) == tool = "post_payment" /\ input.amount > PAYMENT_LIMIT

\* the draft-only gate: DRAFT_ONLY_MODE and tool_name in SEND_TOOLS
DraftGate(r, tool) == DRAFT_ONLY_MODE(r) /\ tool \in SEND_TOOLS

\* One requested invocation b of a tool_use turn (ralph_loop.run, the body
\* of "for block in response.content"), on the loop state st; good is the
\* outcome of the one external effect the invocation has (the approval
\* write, or the skill's own result).  stop is the loop's break.
Invoke(r, task, turn, b, good, st) ==
    IF PaymentGate(b.tool, b.input)
    THEN [st EXCEPT
            !.fs = request_approval(@, PaymentApprovalName(task), PaymentDetails(b.input), good),
            !.calls = @ \cup {[role |-> r, task |-> task, tool |-> "request_approval", input |-> NoInput]},
            !.gated = @ \cup {[role |-> r, task |-> task, gate |-> "payment", tool |-> b.tool, input |-> b.input]},
            !.log = Log(@, task, <<"request_approval">>, b.input, good, turn),
            !.completed = TRUE,
            !.stop = TRUE]
    ELSE IF DraftGate(r, b.tool)
    THEN [st EXCEPT
            !.fs = request_approval(@, SendApprovalName(task, b.tool), SendDetails(b.tool, b.input), good),
            !.calls = @ \cup {[role |-> r, task |-> task, tool |-> "request_approval", input |-> NoInput]},
            !.gated = @ \cup {[role |-> r, task |-> task, gate |-> "draft", tool |-> b.tool, input |-> b.input]},
            !.log = Log(@, task, <<"cloud_draft_", b.tool>>, b.input, good, turn),
            !.completed = TRUE,
            !.stop = TRUE]
    ELSE IF Refused(r, b.tool)
    THEN [st EXCEPT !.log = Log(@, task, <<b.tool>>, b.input, FALSE, turn)]
    ELSE [st EXCEPT
            !.fs = IF b.tool = "request_approval"
                   THEN request_approval(@, ExplicitName(task, b), ExplicitDetails(b), good)
                   ELSE @,
            !.plans = IF b.tool = "write_plan" /\ good THEN WritePlan(@, PlanName(task), "skill") ELSE @,
            !.calls = @ \cup {[role |-> r, task |-> task, tool |-> b.tool, input |-> b.input]},
            !.log = Log(@, task, <<b.tool>>, b.input, good, turn),
            !.raised = Escapes(good),
            !.completed = @ \/ (b.tool = "request_approval" /\ good)]

\* every invocation of the turn (of at most three) is processed: no break
IgnoreBreak(r, task, turn, blocks, goods, k, st) ==
    LET s1 == IF Len(blocks) >= 1 THEN Invoke(r, task, turn, blocks[1], goods[1], st) ELSE st
        s2 == IF Len(blocks) >= 2 THEN Invoke(r, task, turn, blocks[2], goods[2], s1) ELSE s1
    IN IF Len(blocks) >= 3 THEN Invoke(r, task, turn, blocks[3], goods[3], s2) ELSE s2

\* the invocations of one turn, in order, until one breaks out
RECURSIVE ProcessBlocks(_, _, _, _, _, _, _)
ProcessBlocks(r, task, turn, blocks, goods, k, st) ==
    IF k > Len(blocks) \/ st.stop \/ st.raised
    THEN st
    ELSE ProcessBlocks(r, task, turn, blocks, goods, k + 1,
                       Invoke(r, task, turn, blocks[k], goods[k], st))

-----------------------------------------------------------------------------
(* The orchestrator's scan (agent/orchestrator.py) *)

\* the order sorted() gives the names one directory can hold together:
\* token by token, a proper prefix first
TokenOrder == <<"MAX_TURNS_", "PAYMENT_APPROVAL_", "REVIEW_", "SEND_APPROVAL_",
                "M1", "T1", "T2", "T3", "T4", RETRY, "_", "0", "1", "2", "3", "4", "5",
                "6", "7", "8", "9", "label_email", "post_payment", "send_email">>

Rank(tok) == CHOOSE k \in 1..Len(TokenOrder) : TokenOrder[k] = tok

RECURSIVE Less(_, _)
Less(a, b) ==
    IF a = <<>> THEN b # <<>>
    ELSE IF b = <<>> THEN FALSE
    ELSE IF Head(a) = Head(b) THEN Less(Tail(a), Tail(b))
    ELSE Rank(Head(a)) < Rank(Head(b))

\* sorted(directory.glob(pattern)) as a sequence of paths [dir, name]
RECURSIVE SortedPaths(_, _)
SortedPaths(dir, names) ==
    IF names = {} THEN <<>>
    ELSE LET m == CHOOSE n \in names : \A o \in names \ {n} : Less(n, o)
         IN <<[dir |-> dir, name |-> m]>> \o SortedPaths(dir, names \ {m})

\* _in_progress_names()
InProgressNames(f, r) == NamesIn(f, IN_PROGRESS_AGENT(r))

\* approved_dir.glob("*.md")
AllApproved(f) == NamesIn(f, "Approved")

\* approved_dir.glob("SEND_APPROVAL_*.md")
ApprovedCandidates(f) == {n \in NamesIn(f, "Approved") : IsSendApproval(n)}

\* the root is scanned by both roles
CollectWithRoot(f, r) ==
    SortedPaths("NA", NamesIn(f, "NA"))
    \o SortedPaths(DOMAIN_MAP[r][1], NamesIn(f, DOMAIN_MAP[r][1]))
    \o SortedPaths(DOMAIN_MAP[r][2], NamesIn(f, DOMAIN_MAP[r][2]))
    \o (IF r = "local" THEN SortedPaths("Approved", ApprovedCandidates(f)) ELSE <<>>)

\* _collect_candidates()
CollectCandidates(f, r) ==
    (IF r = "local" THEN SortedPaths("NA", NamesIn(f, "NA")) ELSE <<>>)
    \o SortedPaths(DOMAIN_MAP[r][1], NamesIn(f, DOMAIN_MAP[r][1]))
    \o SortedPaths(DOMAIN_MAP[r][2], NamesIn(f, DOMAIN_MAP[r][2]))
    \o (IF r = "local" THEN SortedPaths("Approved", ApprovedCandidates(f)) ELSE <<>>)

\* a future just submitted: _process_task(md_file) not yet started
NewUnit(path) ==
    [path |-> path, pc |-> "queued", turn |-> 0, completed |-> FALSE,
     plan_written |-> FALSE, content |-> TaskContent, lost |-> FALSE,
     raised |-> FALSE, llm_calls |-> 0, tool_schemas |-> {}]

\* every candidate is submitted
DispatchAll(f, r) == CollectCandidates(f, r)

\* the candidates a scan submits: those whose name is not in progress
ToDispatch(f, r) ==
    LET in_progress == InProgressNames(f, r)
    IN SelectSeq(CollectCandidates(f, r), LAMBDA p : p.name \notin in_progress)

\* main(): one iteration that has capacity, and scan_and_dispatch()
Scan(r, limit) ==
    /\ Len(units[r]) < MAX_WORKERS
    /\ ToDispatch(fs, r) # <<>>
    /\ scans < limit
    /\ scans' = scans + 1
    /\ units' = [units EXCEPT ![r] =
                    @ \o [k \in 1..Len(ToDispatch(fs, r)) |-> NewUnit(ToDispatch(fs, r)[k])]]
    /\ UNCHANGED <<fs, plans, calls, audit, hist, gated, logfile, report>>

-----------------------------------------------------------------------------
(* One unit of work: _process_task(task_path) and ralph_loop.run(task_path) *)

RemoveAt(q, i) == SubSeq(q, 1, i - 1) \o SubSeq(q, i + 1, Len(q))

\* the units the pool's threads are running
Running(r) == {i \in 1..Len(units[r]) : units[r][i].pc # "queued"}

SetUnit(r, i, u) == units' = [units EXCEPT ![r][i] = u]

Finish(r, i) == units' = [units EXCEPT ![r] = RemoveAt(@, i)]

\* hist after the handler moved the file at <<dir, name>> to dest: a task
\* requeued, or renamed, has one more name
Renamed(f, dir, name, dest) ==
    LET x == CHOOSE x \in At(f, dir, name) : TRUE
    IN IF x.id[1] \in Tasks /\ (dest.dir \in InputDirs \/ dest.name # name)
       THEN [hist EXCEPT ![x.id[1]] = Append(@, dest.name)]
       ELSE hist

\* a pool without a limit on its threads
AnyThread(r) == TRUE

\* ThreadPoolExecutor(max_workers=MAX_WORKERS): a thread is free
HasFreeThread(r) == Cardinality(Running(r)) < MAX_WORKERS

\* a free pool thread takes the oldest queued future; run() reads the task
\* file: task_path.read_text()
Read(r, i) ==
    LET u == units[r][i] IN
    /\ u.pc = "queued"
    /\ \A j \in 1..(i - 1) : units[r][j].pc # "queued"
    /\ HasFreeThread(r)
    /\ IF Exists(fs, u.path.dir, u.path.name)
       THEN SetUnit(r, i, [u EXCEPT !.pc = "claim",
                     !.content = (CHOOSE x \in At(fs, u.path.dir, u.path.name) : TRUE).content])
       ELSE SetUnit(r, i, [u EXCEPT !.pc = "except", !.lost = TRUE])
    /\ UNCHANGED <<fs, plans, calls, audit, hist, gated, scans, logfile, report>>

\* the direct path is taken on the prefix alone
PrefixOnly(r, name) == IsSendApproval(name)

\* if task_name.startswith("SEND_APPROVAL_") and agent_config.mode == "local"
DirectPath(r, name) == IsSendApproval(name) /\ r = "local"

\* the claim: task_path = _move(task_path, in_progress_dir)
Claim(r, i) ==
    LET u == units[r][i] IN
    /\ u.pc = "claim"
    /\ IF Exists(fs, u.path.dir, u.path.name)
       THEN /\ fs' = Rename(fs, u.path.dir, u.path.name, IN_PROGRESS_AGENT(r), u.path.name)
            /\ SetUnit(r, i,
                   IF DirectPath(r, u.path.name)
                   THEN [u EXCEPT !.pc = "approval"]
                   ELSE [u EXCEPT !.pc = "turn",
                                  !.tool_schemas = get_tool_schemas(r)])
       ELSE /\ fs' = fs
            /\ SetUnit(r, i, [u EXCEPT !.pc = "except", !.lost = TRUE])
    /\ UNCHANGED <<plans, calls, audit, hist, gated, scans, logfile, report>>

\* the loop state a turn's invocations work on
LoopState(r, u) ==
    [fs |-> fs, plans |-> plans, calls |-> calls, gated |-> gated, log |-> audit[r],
     completed |-> u.completed, stop |-> FALSE, raised |-> FALSE]

\* a loop of one turn more
InRangeInclusive(turn) == turn <= MAX_TURNS

\* turn in range(MAX_TURNS)
InRange(turn) == turn < MAX_TURNS

\* one iteration of "for turn in range(MAX_TURNS)": the model's answer resp
\* and what the loop does with it (the model asks for tools in its first
\* toolTurns turns only)
Turn(r, i, resp, goods, toolTurns) ==
    LET u == units[r][i]
        st == IF resp.stop = "tool_use"
              THEN ProcessBlocks(r, u.path.name, u.turn, resp.blocks, goods, 1, LoopState(r, u))
              ELSE LoopState(r, u)
    IN
    /\ u.pc = "turn"
    /\ resp.stop = "tool_use" => u.turn < toolTurns
    /\ fs' = st.fs
    /\ plans' = st.plans
    /\ calls' = st.calls
    /\ gated' = st.gated
    /\ audit' = [audit EXCEPT ![r] = st.log]
    /\ SetUnit(r, i,
          CASE resp.stop = "raise" \/ st.raised ->
                   [u EXCEPT !.pc = "except", !.raised = TRUE, !.llm_calls = @ + 1]
            [] resp.stop = "end_turn" ->
                   [u EXCEPT !.pc = "plan", !.completed = TRUE, !.llm_calls = @ + 1]
            [] resp.stop = "tool_use" /\ st.completed ->
                   [u EXCEPT !.pc = "plan", !.completed = TRUE, !.llm_calls = @ + 1]
            [] resp.stop = "tool_use" /\ ~st.completed /\ InRange(u.turn + 1) ->
                   [u EXCEPT !.turn = @ + 1, !.llm_calls = @ + 1]
            [] OTHER -> [u EXCEPT !.pc = "plan", !.llm_calls = @ + 1])
    /\ UNCHANGED <<hist, scans, logfile, report>>

\* plan_dest.exists()
PlanExists(p, name) == \E x \in p : x.name = name

\* no plan document is written
NoPlan(p, name) == p

\* if not plan_dest.exists(): plan_dest.write_text(...)
Synthesize(p, name) == IF PlanExists(p, name) THEN p ELSE WritePlan(p, name, "loop")

\* "Write plan if not already done"
Plan(r, i) ==
    LET u == units[r][i] IN
    /\ u.pc = "plan"
    /\ plans' = Synthesize(plans, PlanName(u.path.name))
    /\ SetUnit(r, i, [u EXCEPT !.pc = "resolve",
                                !.plan_written = ~PlanExists(plans, PlanName(u.path.name))])
    /\ UNCHANGED <<fs, calls, audit, hist, gated, scans, logfile, report>>

\* the index of the last turn
TurnIndex(u) == u.turn

\* turns=turn + 1
Turns(u) == u.turn + 1

\* the loop ran out of turns: not completed and turn + 1 >= MAX_TURNS
TurnBudgetExceeded(u) == ~u.completed /\ u.turn + 1 >= MAX_TURNS

\* "Move task to Done or Pending_Approvals", then log_completion
Resolve(r, i, wrote) ==
    LET u == units[r][i]
        name == u.path.name
        filed == IF TurnBudgetExceeded(u)
                 THEN request_approval(fs, MaxTurnsName(name), MaxTurnsDetails, wrote)
                 ELSE fs
        dest == IF TurnBudgetExceeded(u) THEN "Pending_Approvals" ELSE "Done"
    IN
    /\ u.pc = "resolve"
    /\ calls' = IF TurnBudgetExceeded(u)
                THEN calls \cup {[role |-> r, task |-> name, tool |-> "request_approval",
                                  input |-> NoInput]}
                ELSE calls
    /\ IF Exists(filed, IN_PROGRESS_AGENT(r), name)
       THEN /\ fs' = Rename(filed, IN_PROGRESS_AGENT(r), name, dest, name)
            /\ audit' = [audit EXCEPT ![r] =
                            LogCompletion(@, name, Turns(u), u.plan_written)]
            /\ Finish(r, i)
       ELSE /\ fs' = filed
            /\ audit' = audit
            /\ SetUnit(r, i, [u EXCEPT !.pc = "except"])
    /\ UNCHANGED <<plans, hist, gated, scans, logfile, report>>

\* the approval file ends in Done whatever the skill returned
DoneAnyway(parsed, ok) == IF ~parsed THEN "Pending_Approvals" ELSE "Done"

\* where _execute_send_approval moves the approval file
ApprovalDest(parsed, ok) ==
    IF ~parsed THEN "Pending_Approvals" ELSE IF ok THEN "Done" ELSE "Rejected"

\* the embedded invocation parses: both markers are found in the content and
\* the text of the second is valid JSON
Parses(content) == BothMarkers(content.text) /\ IsJson(ParsedInputs(content.text))

\* _execute_send_approval(task_path, task_name, content)
ExecuteSendApproval(r, i, good) ==
    LET u == units[r][i]
        name == u.path.name
        tool == ParsedTool(u.content.text)
        tool_input == JsonLoads(ParsedInputs(u.content.text))
        ran == Parses(u.content) /\ ~Refused(r, tool)
        ok == ran /\ good
        dest == ApprovalDest(Parses(u.content), ok)
        logged == IF Parses(u.content)
                  THEN Log(audit[r], name, <<"local_execute_", tool>>, tool_input, ok, 0)
                  ELSE audit[r]
    IN
    /\ u.pc = "approval"
    /\ calls' = IF ran
                THEN calls \cup {[role |-> r, task |-> name, tool |-> tool,
                                  input |-> tool_input]}
                ELSE calls
    /\ IF Exists(fs, IN_PROGRESS_AGENT(r), name)
       THEN /\ fs' = Rename(fs, IN_PROGRESS_AGENT(r), name, dest, name)
            /\ audit' = [audit EXCEPT ![r] =
                            IF Parses(u.content) THEN LogCompletion(logged, name, 1, FALSE)
                            ELSE logged]
            /\ Finish(r, i)
       ELSE /\ fs' = fs
            /\ audit' = [audit EXCEPT ![r] = logged]
            /\ SetUnit(r, i, [u EXCEPT !.pc = "except"])
    /\ UNCHANGED <<plans, hist, gated, scans, logfile, report>>

\* the handler finds the file at neither place
Nowhere(f, r, path) == ""

\* where the handler finds the file: In_Progress/<agent> first, then the
\* path the unit was dispatched with; "" when it is at neither
FoundAt(f, r, path) ==
    IF Exists(f, IN_PROGRESS_AGENT(r), path.name) THEN IN_PROGRESS_AGENT(r)
    ELSE IF Exists(f, path.dir, path.name) THEN path.dir
    ELSE ""

\* retry_path = NEEDS_ACTION / new_name
RetryPath(path) == [dir |-> "NA", name |-> RetryName(path.name)]

\* rejected_path = REJECTED / task_path.name
RejectedPath(path) == [dir |-> "Rejected", name |-> path.name]

\* _process_task: the except clause
Handler(r, i) ==
    LET u == units[r][i]
        src == FoundAt(fs, r, u.path)
        dest == IF GiveUp(RetryCount(u.path.name)) THEN RejectedPath(u.path)
                ELSE RetryPath(u.path)
    IN
    /\ u.pc = "except"
    /\ audit' = [audit EXCEPT ![r] = Log(@, u.path.name, <<"orchestrator_error">>, NoInput, FALSE, 0)]
    /\ IF src # ""
       THEN /\ fs' = Rename(fs, src, u.path.name, dest.dir, dest.name)
            /\ hist' = Renamed(fs, src, u.path.name, dest)
       ELSE UNCHANGED <<fs, hist>>
    /\ Finish(r, i)
    /\ UNCHANGED <<plans, calls, gated, scans, logfile, report>>

\* a person approves a filed SEND_APPROVAL_ file: it moves from Pending_Approvals/
\* to Approved/, where the local role picks it up
Approve(name) ==
    /\ Exists(fs, "Pending_Approvals", name)
    /\ IsSendApproval(name)
    /\ fs' = Rename(fs, "Pending_Approvals", name, "Approved", name)
    /\ UNCHANGED <<units, plans, calls, audit, hist, gated, scans, logfile, report>>

-----------------------------------------------------------------------------
(* The model's answers *)

PayOver == [tool |-> "post_payment", input |-> [invoice_id |-> 7, amount |-> PAYMENT_LIMIT + 1, body |-> <<>>]]

PayAt == [tool |-> "post_payment", input |-> [invoice_id |-> 7, amount |-> PAYMENT_LIMIT, body |-> <<>>]]

SendEmail == [tool |-> "send_email", input |-> [invoice_id |-> 0, amount |-> 0, body |-> <<"hello">>]]

LabelEmail == [tool |-> "label_email", input |-> [invoice_id |-> 0, amount |-> 0, body |-> <<"seen">>]]

EndTurn == [stop |-> "end_turn", blocks |-> <<>>]

Raises == [stop |-> "raise", blocks |-> <<>>]

ToolUse(blocks) == [stop |-> "tool_use", blocks |-> blocks]

\* stop_reason "max_tokens": neither end_turn nor tool_use
MaxTokens == [stop |-> "max_tokens", blocks |-> <<>>]

\* a requested invocation whose input carries a tag, so that every block of
\* every answer is different from every other
Tagged(tool, amount, tag) ==
    [tool |-> tool, input |-> [invoice_id |-> 7, amount |-> amount, body |-> <<tag>>]]

\* the answers of the queue specification: every run of the loop ends in
\* its first turn
QueueAnswers == [cloud |-> {EndTurn, Raises, ToolUse(<<SendEmail>>)},
                 local |-> {EndTurn, Raises}]

\* the answers of the loop specification
LoopAnswers == [r \in Roles |->
    {EndTurn, Raises, ToolUse(<<PayOver>>), ToolUse(<<PayAt>>), ToolUse(<<SendEmail>>),
     ToolUse(<<LabelEmail, PayOver>>)}]

-----------------------------------------------------------------------------
(* Specifications *)

NoUnits == [r \in Roles |-> <<>>]

\* the task files a producer dropped: task t into directory placed[t]
Dropped(placed) ==
    {[dir |-> placed[t], name |-> <<t>>, id |-> <<t>>, home |-> placed[t],
      content |-> TaskContent] : t \in DOMAIN placed}

\* the vault holds the given files and nothing has run yet
InitFiles(files) ==
    /\ logfile = <<>>
    /\ report = NoReport
    /\ fs = files
    /\ units = NoUnits
    /\ plans = {}
    /\ calls = {}
    /\ audit = [r \in Roles |-> <<>>]
    /\ hist = [t \in Tasks |-> <<<<t>>>>]
    /\ gated = {}
    /\ scans = 0

InitWith(placed) == InitFiles(Dropped(placed))

NextWith(answers, limit, toolTurns) ==
    \/ \E r \in Roles : Scan(r, limit)
    \/ \E r \in Roles : \E i \in 1..Len(units[r]) : Read(r, i)
    \/ \E r \in Roles : \E i \in 1..Len(units[r]) : Claim(r, i)
    \/ \E r \in Roles : \E i \in 1..Len(units[r]) : \E resp \in answers[r] :
          \E goods \in [1..Len(resp.blocks) -> BOOLEAN] : Turn(r, i, resp, goods, toolTurns)
    \/ \E r \in Roles : \E i \in 1..Len(units[r]) : Plan(r, i)
    \/ \E r \in Roles : \E i \in 1..Len(units[r]) : \E wrote \in BOOLEAN : Resolve(r, i, wrote)
    \/ \E r \in Roles : \E i \in 1..Len(units[r]) : \E good \in BOOLEAN :
          ExecuteSendApproval(r, i, good)
    \/ \E r \in Roles : \E i \in 1..Len(units[r]) : Handler(r, i)
    \/ \E x \in fs : Approve(x.name)

\* the same without the handoff: no approval file is approved or executed
TasksNext(answers, limit, toolTurns) ==
    \/ \E r \in Roles : Scan(r, limit)
    \/ \E r \in Roles : \E i \in 1..Len(units[r]) : Read(r, i)
    \/ \E r \in Roles : \E i \in 1..Len(units[r]) : Claim(r, i)
    \/ \E r \in Roles : \E i \in 1..Len(units[r]) : \E resp \in answers[r] :
          \E goods \in [1..Len(resp.blocks) -> BOOLEAN] : Turn(r, i, resp, goods, toolTurns)
    \/ \E r \in Roles : \E i \in 1..Len(units[r]) : Plan(r, i)
    \/ \E r \in Roles : \E i \in 1..Len(units[r]) : \E wrote \in BOOLEAN : Resolve(r, i, wrote)
    \/ \E r \in Roles : \E i \in 1..Len(units[r]) : Handler(r, i)

\* The queue specification: one task dropped into any of the input queues,
\* both orchestrators running
Init == \E home \in Homes : InitWith("T1" :> home)

Next == NextWith(QueueAnswers, MaxScans, MAX_TURNS)

Spec == Init /\ [][Next]_vars

\* The loop specification: the model asks for tools
LoopInit == \E home \in {"NA", "NA_email"} : InitWith("T1" :> home)

LoopNext == NextWith(LoopAnswers, MaxLoopScans, MaxToolTurns)

LoopSpec == LoopInit /\ [][LoopNext]_vars

\* a SEND_APPROVAL_ file a person wrote into Approved/, with the given text
Manual(text) ==
    [dir |-> "Approved", name |-> <<"SEND_APPROVAL_", "M1">>, id |-> <<"SEND_APPROVAL_", "M1">>,
     home |-> "Approved",
     content |-> [kind |-> "manual", tool |-> "", input |-> NoInput, shown |-> <<>>, text |-> text]]

Send(body) == [tool |-> "send_email", input |-> [invoice_id |-> 0, amount |-> 0, body |-> body]]

\* the texts of the hand-written approval files: no marker, the tool marker
\* only, both markers with invalid JSON, both markers well formed
ManualTexts ==
    {<<"please", "send">>,
     <<TOOL_MARK, "send_email", END_MARK, NL>>,
     <<TOOL_MARK, "send_email", END_MARK, NL, INPUTS_MARK, "{", "oops", END_MARK, NL>>,
     MarkersOnly("send_email", Send(<<"hello">>).input)}

\* the answers of the handoff specification: the cloud role is asked to send
HandoffAnswers ==
    [cloud |-> {ToolUse(<<Send(b)>>) : b \in Bodies} \cup {ToolUse(<<PayAt>>)},
     local |-> {EndTurn}]

\* The handoff specification: a task for the cloud role, and possibly a
\* hand-written approval file, both orchestrators running
HandoffInit ==
    \/ InitWith("T1" :> "NA_email")
    \/ \E text \in ManualTexts : InitFiles(Dropped("T1" :> "NA_email") \cup {Manual(text)})

HandoffNext == NextWith(HandoffAnswers, MaxHandoffScans, MAX_TURNS)

HandoffSpec == HandoffInit /\ [][HandoffNext]_vars

\* the answers of the turn-budget specification: the model keeps asking for
\* a tool that completes nothing
BudgetAnswers == [r \in Roles |-> {ToolUse(<<LabelEmail>>), EndTurn, Raises}]

\* The turn-budget specification: one task of the local role, the model free
\* to ask for tools in every one of the MAX_TURNS turns
BudgetInit == InitWith("T1" :> "NA")

BudgetNext == TasksNext(BudgetAnswers, MaxBudgetScans, MAX_TURNS)

BudgetSpec == BudgetInit /\ [][BudgetNext]_vars

\* the answers of the pool specification
PoolAnswers == [r \in Roles |-> {EndTurn, Raises}]

\* The pool specification: more tasks than pool threads, all of the local
\* role
PoolInit == InitWith([t \in Tasks |-> "NA"])

PoolNext == TasksNext(PoolAnswers, MaxPoolScans, MAX_TURNS)

PoolSpec == PoolInit /\ [][PoolNext]_vars

\* the answers of the invocation-order specification: a gated payment and a
\* send between two plain invocations, an explicit approval request before
\* a plain one and before a gated one, an unknown skill before write_plan
OrderAnswers == [r \in Roles |->
    {EndTurn, Raises, MaxTokens,
     ToolUse(<<Tagged("label_email", 0, "a1"), Tagged("post_payment", PAYMENT_LIMIT + 1, "a2"),
               Tagged("label_email", 0, "a3")>>),
     ToolUse(<<Tagged("label_email", 0, "b1"), Tagged("send_email", 0, "b2"),
               Tagged("label_email", 0, "b3")>>),
     ToolUse(<<Tagged("request_approval", 0, "c1"), Tagged("label_email", 0, "c2")>>),
     ToolUse(<<Tagged("?", 0, "d1"), Tagged("write_plan", 0, "d2")>>),
     ToolUse(<<Tagged("request_approval", 0, "e1"),
               Tagged("post_payment", PAYMENT_LIMIT + 1, "e2")>>)}]

\* The invocation-order specification: one task, of either role, and a model
\* that asks for several tools in one turn, each of which can fail
OrderInit == \E home \in {"NA", "NA_email"} : InitWith("T1" :> home)

OrderNext == TasksNext(OrderAnswers, MaxOrderScans, MaxOrderTurns)

OrderSpec == OrderInit /\ [][OrderNext]_vars

\* main() scans every SCAN_INTERVAL seconds for ever: a scan of two idle
\* orchestrators is always possible, the scans made while a unit of work is
\* pending are counted up to MaxLiveScans
LiveLimit == IF units = NoUnits THEN scans + 1 ELSE MaxLiveScans

\* The liveness specification: one task in any input queue, a model that
\* ends its turn or fails; every thread of the pools and both scan loops
\* keep running
LiveInit == \E home \in Homes : InitWith("T1" :> home)

LiveNext == TasksNext(PoolAnswers, LiveLimit, MAX_TURNS)

LiveSpec == LiveInit /\ [][LiveNext]_vars /\ WF_vars(LiveNext)

\* a person releases a file of Pending_Approvals, whatever its name: it is
\* moved to Approved/
Release(name) ==
    /\ Exists(fs, "Pending_Approvals", name)
    /\ ~Exists(fs, "Approved", name)
    /\ fs' = Rename(fs, "Pending_Approvals", name, "Approved", name)
    /\ UNCHANGED <<units, plans, calls, audit, hist, gated, scans, logfile, report>>

\* the answers of the approval specification: payments above and at the
\* limit, and a request_approval by which the model asks for an item under
\* a name of the handoff, its details embedding a payment above the limit
ApprovalAnswers ==
    [cloud |-> {ToolUse(<<PayOver>>), ToolUse(<<PayAt>>),
                ToolUse(<<[tool |-> "request_approval",
                           input |-> [invoice_id |-> 0, amount |-> 0,
                                      body |-> MarkersOnly("post_payment", PayOver.input)],
                           name |-> <<"SEND_APPROVAL_", "T1">>]>>)},
     local |-> {EndTurn, ToolUse(<<PayOver>>), ToolUse(<<PayAt>>)}]

\* The approval specification: one task of either role; a person releases
\* what is filed in Pending_Approvals, and the local role executes what it
\* finds approved
ApprovalInit == \E home \in {"NA", "NA_email"} : InitWith("T1" :> home)

\* the scans of the approval specification: idle orchestrators can always
\* scan, the scans made while a unit of work is pending are counted up to
\* MaxApprovalScans
ApprovalLimit == IF units = NoUnits THEN scans + 1 ELSE MaxApprovalScans

ApprovalNext ==
    \/ TasksNext(ApprovalAnswers, ApprovalLimit, MaxApprovalTurns)
    \/ \E i \in 1..Len(units["local"]) : \E good \in BOOLEAN :
          ExecuteSendApproval("local", i, good)
    \/ \E x \in fs : Release(x.name)

ApprovalSpec == ApprovalInit /\ [][ApprovalNext]_vars

\* a file named SEND_APPROVAL_M1 that a producer, or a person, put into the
\* directory dir, embedding a send_email
Planted(dir) ==
    [Manual(MarkersOnly("send_email", Send(<<"hello">>).input)) EXCEPT !.dir = dir, !.home = dir]

\* The prefix specification: a task of either role and a file whose name
\* starts with SEND_APPROVAL_, in an input queue of either role or in
\* Approved/; the model ends its turn or fails
PrefixInit ==
    \E home \in {"NA", "NA_email"} : \E dir \in {"NA", "NA_email", "Approved"} :
        InitFiles(Dropped("T1" :> home) \cup {Planted(dir)})

PrefixNext ==
    \/ TasksNext(PoolAnswers, MaxPrefixScans, MAX_TURNS)
    \/ \E r \in Roles : \E i \in 1..Len(units[r]) : \E good \in BOOLEAN :
          ExecuteSendApproval(r, i, good)

PrefixSpec == PrefixInit /\ [][PrefixNext]_vars

\* the answers of the held-payment specification: a payment above the limit,
\* and the request of a tool that no skill has, which completes nothing
HeldAnswers ==
    [r \in Roles |-> {ToolUse(<<PayOver>>), ToolUse(<<[tool |-> "?", input |-> NoInput]>>)}]

\* The held-payment specification: one task of either role, the model free
\* to ask for tools in every one of the MAX_TURNS turns; a person releases
\* what is filed in Pending_Approvals, and the orchestrators go on scanning
HeldInit == \E home \in {"NA", "NA_email"} : InitWith("T1" :> home)

HeldNext ==
    \/ TasksNext(HeldAnswers, IF units = NoUnits THEN scans + 1 ELSE MaxHeldScans, MAX_TURNS)
    \/ \E x \in fs : Release(x.name)

HeldSpec == HeldInit /\ [][HeldNext]_vars

\* the task file T2.md that a process of role r, stopped while working on
\* it, left in In_Progress/<agent>
Stale(r) ==
    [dir |-> IN_PROGRESS_AGENT(r), name |-> <<"T2">>, id |-> <<"T2">>,
     home |-> IF r = "cloud" THEN "NA_email" ELSE "NA",
     content |-> [TaskContent EXCEPT !.text = <<"stale">>]]

\* The restart specification: both orchestrators start on a vault in which
\* one of them left T2.md in its In_Progress directory; a new T2.md and a
\* task T1.md are in input queues; the model ends its turn or fails
StaleInit ==
    \E r \in Roles : \E home1, home2 \in {"NA", "NA_email"} :
        InitFiles(Dropped(("T1" :> home1) @@ ("T2" :> home2)) \cup {Stale(r)})

StaleNext == TasksNext(PoolAnswers, MaxStaleScans, MAX_TURNS)

StaleSpec == StaleInit /\ [][StaleNext]_vars

\* one invocation of the dispatcher, outside the loop: an executed skill is
\* recorded in calls, a refused one in gated
Dispatch(r, tool, imported) ==
    LET outcome == call_skill(r, tool, imported)
        what == [role |-> r, task |-> <<"T1">>, tool |-> tool, input |-> NoInput]
    IN
    /\ scans < MaxDispatches
    /\ scans' = scans + 1
    /\ calls' = IF outcome = "executed" THEN calls \cup {what} ELSE calls
    /\ gated' = IF outcome = "executed" THEN gated
                ELSE gated \cup {[role |-> r, task |-> <<"T1">>, gate |-> outcome,
                                   tool |-> tool, input |-> NoInput]}
    /\ UNCHANGED <<fs, units, plans, audit, hist, logfile, report>>

\* The dispatcher specification: call_skill invoked by either role with any
\* skill name, under either outcome of its import
DispatchInit == InitFiles({})

DispatchNext ==
    \E r \in Roles : \E tool \in SKILL_REGISTRY \cup {"?"} : \E imported \in BOOLEAN :
        Dispatch(r, tool, imported)

DispatchSpec == DispatchInit /\ [][DispatchNext]_vars

\* the lines a log file can hold: blank, not JSON, JSON that is no object,
\* objects without ts or with a ts that is no date, dates without a
\* timezone, and records of the days around the two cutoffs
LogLines ==
    {Line("blank", "missing", 0), Line("invalid", "missing", 0),
     Line("array", "missing", 0), Line("object", "missing", 0),
     Line("object", "number", 0), Line("object", "garbage", 0),
     Line("object", "naive", Now)}
    \cup {Line("object", "aware", d) : d \in {Now - 8, Now - 7, Now - 1, Now}}

\* the files of at most MaxLines lines
LogFiles == UNION {[1..n -> LogLines] : n \in 0..MaxLines}

\* the report asked for at time Now
ReadReport(days) ==
    /\ report' = read_last_n_days(logfile, days)
    /\ UNCHANGED <<fs, units, plans, calls, audit, hist, gated, scans, logfile>>

\* The reader specification: a log file of any lines, read for the last day
\* and for the last seven
ReadInit ==
    /\ logfile \in LogFiles
    /\ report = NoReport
    /\ fs = {}
    /\ units = NoUnits
    /\ plans = {}
    /\ calls = {}
    /\ audit = [r \in Roles |-> <<>>]
    /\ hist = [t \in Tasks |-> <<<<t>>>>]
    /\ gated = {}
    /\ scans = 0

ReadNext == \E days \in {1, 7} : ReadReport(days)

ReadSpec == ReadInit /\ [][ReadNext]_vars

-----------------------------------------------------------------------------
(* Properties of the queue *)

Last(q) == q[Len(q)]

\* the units of work of both roles
AllUnits == UNION {{units[r][i] : i \in 1..Len(units[r])} : r \in Roles}

TaskFiles(t) == {x \in fs : x.id = <<t>>}

\* the orchestrator_error records of task t, in both logs
ErrorsOf(r, t) ==
    {k \in 1..Len(audit[r]) :
        audit[r][k].action = <<"orchestrator_error">> /\ audit[r][k].task[1] = t}

Failures(t) == Cardinality(ErrorsOf("cloud", t)) + Cardinality(ErrorsOf("local", t))

\* no unit of work is on task t
Idle(t) == \A r \in Roles : \A i \in 1..Len(units[r]) : units[r][i].path.name[1] # t

NoDuplicateArtifact == \A x, y \in fs : x.id = y.id => x = y

InAQueue == \A x \in fs : x.dir \in QueueDirs

\* C1: at every step every artifact of the vault is in exactly one queue
\* directory: no artifact is at two paths, and an artifact that is in a queue
\* before a step is in a queue after it.
C1_ExactlyOneQueue ==
    /\ [](NoDuplicateArtifact /\ InAQueue)
    /\ [][\A x \in fs : \E y \in fs' : y.id = x.id]_vars

\* the task has been claimed, requeued and rejected, and is in one queue
C1_Witness == \E x \in fs : x.id = <<"T1">> /\ x.dir = "Rejected"

\* C2: one orchestrator never holds two unfinished units of work for the
\* same artifact path.
C2_NoDoubleSubmit ==
    \A r \in Roles : \A i, j \in 1..Len(units[r]) :
        i # j => units[r][i].path # units[r][j].path

\* C3: the unit of work that lost the claim race (its read or its claim met
\* file-not-found) ends without moving any file and without an audit record.
C3_LoserIsBenign ==
    [][\A r \in Roles : \A i \in 1..Len(units[r]) :
          (units[r][i].lost /\ units'[r] = RemoveAt(units[r], i))
              => (fs' = fs /\ audit'[r] = audit[r])]_vars

\* C4: a task is requeued at most MAX_RETRIES times; a task in Rejected has
\* been requeued exactly MAX_RETRIES times; and a file in Rejected stays
\* there, under its name, for ever.
C4_RetryBound ==
    /\ [](\A t \in Tasks : Len(hist[t]) <= MAX_RETRIES + 1)
    /\ [](\A t \in Tasks : \A x \in TaskFiles(t) :
            x.dir = "Rejected" => Len(hist[t]) = MAX_RETRIES + 1)
    /\ [][\A x \in fs : x.dir = "Rejected" => x \in fs']_vars

\* the task was requeued MAX_RETRIES times and is in Rejected
C4_Witness ==
    \E x \in TaskFiles("T1") : x.dir = "Rejected" /\ Len(hist["T1"]) = MAX_RETRIES + 1

\* C5, as amended: a task is in Rejected only after MAX_RETRIES + 1 of its
\* units of work have failed.
C5_RejectedAfterFourFailures ==
    \A t \in Tasks : \A x \in TaskFiles(t) :
        x.dir = "Rejected" => Failures(t) >= MAX_RETRIES + 1

\* the task is in Rejected after exactly MAX_RETRIES + 1 failures
C5_Witness ==
    \E x \in TaskFiles("T1") : x.dir = "Rejected" /\ Failures("T1") = MAX_RETRIES + 1

\* C5, as claimed: once the task has failed MAX_RETRIES times, each failure
\* followed by its requeue, and no unit of work is on it, it is in Rejected.
C5_RejectedAfterThreeFailures ==
    \A t \in Tasks : \A x \in TaskFiles(t) :
        (Failures(t) = MAX_RETRIES /\ Len(hist[t]) = MAX_RETRIES + 1 /\ Idle(t))
            => x.dir = "Rejected"

\* C6: no file name carries a retry number above MAX_RETRIES.
C6_NoRetryBeyondMax == \A x \in fs : RetryCount(x.name) <= MAX_RETRIES

\* a file carries the retry number MAX_RETRIES
C6_Witness == \E x \in fs : RetryCount(x.name) = MAX_RETRIES /\ x.dir = "NA"

\* the k-th name of task t: t, t_retry_1, t_retry_2, ...
NthName(t, k) == IF k = 1 THEN <<t>> ELSE <<t, RETRY, Str(k - 1)>>

Retries(stem) == Cardinality({i \in 1..Len(stem) : stem[i] = RETRY})

\* C7: the names of a task are t, t_retry_1, t_retry_2, ... in this order,
\* one more per requeue; its file carries the last of them wherever it is
\* (a successful attempt adds no suffix); no name holds two retry suffixes.
C7_RetrySuffix ==
    /\ \A t \in Tasks : \A k \in 1..Len(hist[t]) : hist[t][k] = NthName(t, k)
    /\ \A t \in Tasks : \A x \in TaskFiles(t) : x.name = Last(hist[t])
    /\ \A x \in fs : Retries(x.name) <= 1

\* the task failed twice, then completed as t_retry_2
C7_Witness ==
    \E x \in TaskFiles("T1") :
        x.dir = "Done" /\ x.name = <<"T1", RETRY, "2">> /\ Len(hist["T1"]) = 3

\* C8: a file in an input queue is in the input queue it was first claimed
\* from, also after a requeue.
C8_RequeuedAtHome == \A x \in fs : x.dir \in InputDirs => x.dir = x.home

-----------------------------------------------------------------------------
(* Properties of the gates *)

\* C9: no post_payment above the limit is ever executed, and for every
\* invocation the payment gate substituted there is a file
\* PAYMENT_APPROVAL_<task> showing its amount and invoice id.
C9_PaymentGate ==
    /\ \A c \in calls : ~(c.tool = "post_payment" /\ c.input.amount > PAYMENT_LIMIT)
    /\ \A g \in gated : g.gate = "payment" =>
          \E x \in fs : /\ x.id = PaymentApprovalName(g.task)
                        /\ x.content.shown = Format2f(g.input.amount) \o <<g.input.invoice_id>>

\* C10: the cloud role executes no skill of SEND_TOOLS, and for every
\* invocation of one that its loop was asked for there is a file
\* SEND_APPROVAL_<task>_<tool> embedding the tool name and the tool input.
C10_DraftOnly ==
    /\ \A c \in calls : c.role = "cloud" => c.tool \notin SEND_TOOLS
    /\ \A g \in gated : (g.role = "cloud" /\ g.tool \in SEND_TOOLS) =>
          \E x \in fs : /\ x.id = SendApprovalName(g.task, g.tool)
                        /\ x.content.tool = g.tool
                        /\ x.content.input = g.input

-----------------------------------------------------------------------------
(* Properties of the handoff *)

\* the approval files the draft-only gate wrote
Drafted == {x \in fs : x.content.kind = "send_approval"}

\* C11: for every approval file the draft-only gate wrote, the local role's
\* parser finds both markers, and reads the original tool name and a tool
\* input equal to the original.
C11_RoundTrip ==
    \A x \in Drafted :
        /\ Parses(x.content)
        /\ ParsedTool(x.content.text) = x.content.tool
        /\ JsonLoads(ParsedInputs(x.content.text)) = x.content.input

\* the approval files the draft-only gate writes in this step
NewDrafts == {y \in fs' : y.content.kind = "send_approval" /\ \A x \in fs : x.id # y.id}

-----------------------------------------------------------------------------
(* Properties of the dispatcher and of the audit log *)

\* C13: the dispatcher executes, for the cloud role, no skill outside
\* CLOUD_SKILLS (and for either role no skill outside the registry).
C13_DispatcherRejects ==
    \A c \in calls :
        /\ c.tool \in SKILL_REGISTRY
        /\ c.role = "cloud" => c.tool \in CLOUD_SKILLS

\* the audit record rec is the record of the skill invocation c
RecordOf(rec, c) ==
    /\ rec.task = c.task
    /\ \/ rec.action = <<c.tool>>
       \/ rec.action = <<"local_execute_", c.tool>>
       \/ c.tool = "request_approval" /\ rec.action[1] = "cloud_draft_"

\* C14: every skill the dispatcher executed for a role has its record in
\* that role's audit log.
C14_EveryCallLogged ==
    \A c \in calls : \E k \in 1..Len(audit[c.role]) : RecordOf(audit[c.role][k], c)

\* the file x is resolved by this step into y: it leaves In_Progress, or the
\* input directory it was still in, for a terminal or an input directory
Resolved(x, y) ==
    /\ y.id = x.id
    /\ x.dir # y.dir \/ x.name # y.name
    /\ x.dir # "Pending_Approvals"
    /\ y.dir \notin {"IP_cloud", "IP_local"}

\* C15: a step that resolves a file appends to the audit log of some role a
\* record for that file's task.
C15_ResolutionLogged ==
    [][\A x \in fs : \A y \in fs' :
          Resolved(x, y) =>
              \E r \in Roles : /\ Len(audit'[r]) > Len(audit[r])
                               /\ Last(audit'[r]).task = x.name]_vars

-----------------------------------------------------------------------------
(* Properties of the worker pool *)

\* C16: in one orchestrator process at most MAX_WORKERS units of work run
\* at the same time.
C16_AtMostMaxWorkersRun == \A r \in Roles : Cardinality(Running(r)) <= MAX_WORKERS

\* MAX_WORKERS units run while another one waits for a thread
C16_Witness ==
    \E r \in Roles :
        /\ Cardinality(Running(r)) = MAX_WORKERS
        /\ \E i \in 1..Len(units[r]) : units[r][i].pc = "queued"

\* C17: the units of work submitted and not yet finished are at most
\* MAX_WORKERS, in every state.
C17_BacklogBounded == \A r \in Roles : Len(units[r]) <= MAX_WORKERS

-----------------------------------------------------------------------------
(* Properties of the turn budget and of the direct execution *)

\* C18: when a unit of work whose loop ran MAX_TURNS turns without
\* completing resolves its task, the file MAX_TURNS_<task> is in
\* Pending_Approvals afterwards and so is the task file.
C18_BudgetToPending ==
    [][\A r \in Roles : \A i \in 1..Len(units[r]) :
          LET u == units[r][i] IN
          (u.pc = "resolve" /\ TurnBudgetExceeded(u) /\ units'[r] = RemoveAt(units[r], i))
              => /\ \E x \in fs' : /\ x.name = MaxTurnsName(u.path.name)
                                   /\ x.dir = "Pending_Approvals"
                                   /\ x.content.kind = "max_turns"
                 /\ \E y \in fs' : y.name = u.path.name /\ y.dir = "Pending_Approvals"]_vars

\* the local unit i, on an approval file, ends in this step
EndsApproval(i) ==
    /\ units["local"][i].pc = "approval"
    /\ units'["local"] = RemoveAt(units["local"], i)

\* C19: when the local role's direct execution of a SEND_APPROVAL_ file
\* ends, the file is in Pending_Approvals and no skill was invoked if its
\* content does not parse; otherwise it is in Done if the result logged for
\* the skill is ok, and in Rejected if it is a failure.
C19_DirectExecution ==
    [][\A i \in 1..Len(units["local"]) :
          LET u == units["local"][i]
              log == audit'["local"]
          IN EndsApproval(i) =>
              \E y \in fs' :
                  /\ y.name = u.path.name
                  /\ IF ~Parses(u.content)
                     THEN y.dir = "Pending_Approvals" /\ calls' = calls
                     ELSE /\ log[Len(log) - 1].action[1] = "local_execute_"
                          /\ y.dir = IF log[Len(log) - 1].ok THEN "Done" ELSE "Rejected"]_vars

\* a hand-written file without markers is in Pending_Approvals, nothing
\* called for it, and a drafted one whose skill failed is in Rejected
C19_Witness ==
    /\ \E y \in fs : /\ y.content.kind = "manual"
                      /\ ~Parses(y.content)
                      /\ y.dir = "Pending_Approvals"
                      /\ \A c \in calls : c.task # y.name
    /\ \E x \in Drafted : x.dir = "Rejected"

\* C20: the audit log of a process only grows: after every step the log is
\* the log before it, record for record, followed by the records appended.
C20_AppendOnly ==
    [][\A r \in Roles :
          /\ Len(audit'[r]) >= Len(audit[r])
          /\ SubSeq(audit'[r], 1, Len(audit[r])) = audit[r]]_vars

\* the log holds records of three tasks, written by three units of work
C20_Witness ==
    \E r \in Roles : \E i, j, k \in 1..Len(audit[r]) :
        /\ audit[r][i].task = <<"T1">>
        /\ audit[r][j].task = <<"T2">>
        /\ audit[r][k].task = <<"T3">>

-----------------------------------------------------------------------------
(* Progress of the queue *)

TerminalDirs == {"Done", "Rejected", "Pending_Approvals"}

\* C22: every task artifact that is in an input queue or in In_Progress
\* is eventually in Done, Rejected or Pending_Approvals.
C22_EventuallyTerminal ==
    \A t \in Tasks :
        (\E x \in TaskFiles(t) : x.dir \notin TerminalDirs)
            ~> (\E x \in TaskFiles(t) : x.dir \in TerminalDirs)

\* a task of the cloud role failed, was requeued, and is in a terminal
\* queue under its second name, no unit of work left
C22_Witness ==
    /\ units = NoUnits
    /\ \E x \in TaskFiles("T1") :
          /\ x.home = "NA_email"
          /\ x.dir \in TerminalDirs
          /\ x.name = <<"T1", RETRY, "1">>

-----------------------------------------------------------------------------
(* Properties of the turn *)

\* the places in role r's audit log of the records of task, action and input
RecordsOf(r, task, action, input) ==
    {k \in 1..Len(audit[r]) : /\ audit[r][k].task = task
                              /\ audit[r][k].action = action
                              /\ audit[r][k].input = input}

\* C23: no audit record has the action post_payment with an amount above the
\* limit, and every invocation the payment gate substituted has exactly one
\* request_approval record, with its input, in the log of its task.
C23_GatedPaymentRecords ==
    /\ \A r \in Roles : \A k \in 1..Len(audit[r]) :
          ~(audit[r][k].action = <<"post_payment">> /\ audit[r][k].input.amount > PAYMENT_LIMIT)
    /\ \A g \in gated : g.gate = "payment" =>
          /\ RecordsOf(g.role, g.task, <<"post_payment">>, g.input) = {}
          /\ Cardinality(RecordsOf(g.role, g.task, <<"request_approval">>, g.input)) = 1

\* a payment above the limit was asked for after an explicit approval
\* request that failed: the log holds the record of each
C23_Witness ==
    \E g \in gated :
        /\ g.gate = "payment"
        /\ g.input.body = <<"e2">>
        /\ \E k \in 1..Len(audit[g.role]) :
              /\ audit[g.role][k].action = <<"request_approval">>
              /\ audit[g.role][k].input.body = <<"e1">>
              /\ ~audit[g.role][k].ok

\* the answer of the invocation-order specification that holds the block b,
\* and the place of b in it
AnswerOf(r, b) ==
    CHOOSE resp \in OrderAnswers[r] : \E k \in 1..Len(resp.blocks) : resp.blocks[k] = b

PlaceOf(resp, b) == CHOOSE k \in 1..Len(resp.blocks) : resp.blocks[k] = b

\* the records this step appends to role r's audit log
NewRecords(r) == SubSeq(audit'[r], Len(audit[r]) + 1, Len(audit'[r]))

\* the call of the dispatcher for the block b of a task
CallOf(r, task, b) == [role |-> r, task |-> task, tool |-> b.tool, input |-> b.input]

\* C24: in the turn in which the k-th requested invocation hits the payment
\* gate or the draft-only gate, the audit log gains the records of the
\* invocations 1..k in the order received, every known skill before the k-th
\* has been executed, no invocation after the k-th is executed, then or
\* later, and the loop leaves for the plan without another LLM call.
C24_GateStopsTurn ==
    /\ [][\A g \in gated' \ gated :
            LET b == [tool |-> g.tool, input |-> g.input]
                resp == AnswerOf(g.role, b)
                k == PlaceOf(resp, b)
                new == NewRecords(g.role)
            IN /\ Len(new) = k
               /\ \A j \in 1..k : new[j].task = g.task /\ new[j].input = resp.blocks[j].input
               /\ \A j \in 1..(k - 1) :
                     /\ new[j].action = <<resp.blocks[j].tool>>
                     /\ ~Refused(g.role, resp.blocks[j].tool)
                           => CallOf(g.role, g.task, resp.blocks[j]) \in calls'
               /\ \A i \in 1..Len(units[g.role]) :
                     (units[g.role][i].pc = "turn" /\ units[g.role][i].path.name = g.task)
                         => /\ units'[g.role][i].pc = "plan"
                            /\ units'[g.role][i].completed]_vars
    /\ [](\A g \in gated :
            LET b == [tool |-> g.tool, input |-> g.input]
                resp == AnswerOf(g.role, b)
            IN \A j \in (PlaceOf(resp, b) + 1)..Len(resp.blocks) :
                  /\ CallOf(g.role, g.task, resp.blocks[j]) \notin calls
                  /\ RecordsOf(g.role, g.task, <<resp.blocks[j].tool>>, resp.blocks[j].input) = {})

\* the first invocation of a turn was executed, the second was held back by
\* the draft-only gate, and the task is done
C24_Witness ==
    /\ \E g \in gated : g.gate = "draft" /\ g.input.body = <<"b2">>
    /\ \E c \in calls : c.role = "cloud" /\ c.tool = "label_email" /\ c.input.body = <<"b1">>
    /\ \E x \in TaskFiles("T1") : x.dir = "Done"

\* the record of an invocation the dispatcher was given, not of a gate
IsSkillRecord(rec) ==
    /\ Len(rec.action) = 1
    /\ ~(rec.action = <<"request_approval">> /\ rec.input.amount > PAYMENT_LIMIT)

\* this step is a turn of the loop of role r's unit i
TurnOf(r, i) ==
    /\ units[r][i].pc = "turn"
    /\ Len(units'[r]) = Len(units[r])
    /\ units'[r][i] # units[r][i]

\* C25: in the turn in which an explicit request_approval succeeds, its
\* record is the last one written (no later invocation of the turn is
\* processed) and the loop leaves for the plan without another LLM call.
C25_ApprovalStopsTurn ==
    [][\A r \in Roles : \A i \in 1..Len(units[r]) :
          TurnOf(r, i) =>
              LET new == NewRecords(r) IN
              \A j \in 1..Len(new) :
                  (IsSkillRecord(new[j]) /\ new[j].action = <<"request_approval">> /\ new[j].ok)
                      => (j = Len(new) /\ units'[r][i].pc = "plan")]_vars

\* role r's unit i, at "resolve", ends in this step
Resolves(r, i) ==
    /\ units[r][i].pc = "resolve"
    /\ units'[r] = RemoveAt(units[r], i)

\* the approval file of the gated invocation g is in the vault
Filed(g) ==
    \E x \in fs : x.id = IF g.gate = "payment" THEN PaymentApprovalName(g.task)
                          ELSE SendApprovalName(g.task, g.tool)

\* C26: when the loop moves a task to Done, the loop was completed (by
\* end_turn, a gate or a successful approval request), and the approval file
\* of every invocation a gate substituted for the task has been filed.
C26_DoneOnlyIfCompleted ==
    [][\A r \in Roles : \A i \in 1..Len(units[r]) :
          (Resolves(r, i) /\ \E y \in fs' : y.name = units[r][i].path.name /\ y.dir = "Done")
              => /\ units[r][i].completed
                 /\ \A g \in gated :
                       (g.role = r /\ g.task = units[r][i].path.name) => Filed(g)]_vars

\* the file the retry policy makes of the file x of a unit that failed
Retried(x, y) ==
    /\ y.id = x.id
    /\ \/ y.dir = "Rejected" /\ y.name = x.name
       \/ /\ y.dir \in InputDirs
          /\ Retries(y.name) = 1
          /\ RetryCount(y.name) = RetryCount(x.name) + 1

\* C27: the turn in which the loop fails moves no file, and the handler of
\* a unit whose loop failed in a turn finds the task in In_Progress/<agent>
\* and applies one transition to it and to no other file: the requeue under
\* the next retry suffix, or the move to Rejected.
C27_FailureGoesToRetryPolicy ==
    /\ [][\A r \in Roles : \A i \in 1..Len(units[r]) :
            (TurnOf(r, i) /\ units'[r][i].pc = "except") => fs' = fs]_vars
    /\ [][\A r \in Roles : \A i \in 1..Len(units[r]) :
            LET u == units[r][i] IN
            (u.pc = "except" /\ u.raised /\ units'[r] = RemoveAt(units[r], i))
                => \E x \in At(fs, IN_PROGRESS_AGENT(r), u.path.name) :
                      \E y \in fs' : Retried(x, y) /\ fs' = (fs \ {x}) \cup {y}]_vars

\* the answer of the invocation-order specification holding a block of the
\* given input
AnswerWith(r, input) ==
    CHOOSE resp \in OrderAnswers[r] : \E k \in 1..Len(resp.blocks) : resp.blocks[k].input = input

\* C28: a turn in which the j-th invocation, given to the dispatcher,
\* fails does not end in the orchestrator's handler: the task stays in
\* In_Progress, the next invocation of the turn is processed, and after the
\* last one the loop goes to the next turn unless it was completed.
C28_SkillFailureFedBack ==
    [][\A r \in Roles : \A i \in 1..Len(units[r]) :
          TurnOf(r, i) =>
              LET new == NewRecords(r)
                  u == units[r][i]
                  v == units'[r][i]
              IN \A j \in 1..Len(new) :
                    (IsSkillRecord(new[j]) /\ ~new[j].ok) =>
                        LET blocks == AnswerWith(r, new[j].input).blocks IN
                        /\ v.pc \in {"turn", "plan"}
                        /\ ~v.raised
                        /\ fs' \cap TaskFiles("T1") = fs \cap TaskFiles("T1")
                        /\ hist' = hist
                        /\ j < Len(blocks) =>
                              (Len(new) > j /\ new[j + 1].input = blocks[j + 1].input)
                        /\ (j = Len(blocks) /\ ~v.completed) =>
                              (v.pc = "turn" /\ v.turn = u.turn + 1)]_vars

\* an unknown skill and the write_plan asked for after it have both failed,
\* their failures are in the log, and the task is done without a retry
C28_Witness ==
    /\ \E r \in Roles : \E j \in 1..(Len(audit[r]) - 1) :
          /\ audit[r][j].action = <<"?">> /\ ~audit[r][j].ok
          /\ audit[r][j + 1].action = <<"write_plan">> /\ ~audit[r][j + 1].ok
    /\ \E x \in TaskFiles("T1") : x.dir = "Done" /\ x.name = <<"T1">>

\* C29: when the loop's resolution takes the task out of In_Progress, the
\* plan document of the task exists already; and the step before it writes
\* the plan, as the loop's, exactly when the task has none yet.
C29_PlanBeforeResolve ==
    /\ [][\A r \in Roles : \A i \in 1..Len(units[r]) :
            Resolves(r, i) => PlanExists(plans, PlanName(units[r][i].path.name))]_vars
    /\ [][\A r \in Roles : \A i \in 1..Len(units[r]) :
            LET n == PlanName(units[r][i].path.name) IN
            (units[r][i].pc = "plan" /\ Len(units'[r]) = Len(units[r])
                                     /\ units'[r][i].pc = "resolve")
                => IF PlanExists(plans, n)
                   THEN plans' = plans /\ ~units'[r][i].plan_written
                   ELSE /\ plans' = plans \cup {[name |-> n, by |-> "loop"]}
                        /\ units'[r][i].plan_written]_vars

\* the task is done and its plan is the one the model wrote with write_plan:
\* the loop synthesized none
C29_Witness ==
    \E x \in TaskFiles("T1") :
        /\ x.dir = "Done"
        /\ [name |-> PlanName(x.name), by |-> "skill"] \in plans

\* C30: the task_completed record the loop writes carries the number of LLM
\* calls made for the task, which is the index of the last turn plus one,
\* and plan_written is true exactly when the loop synthesized the plan.
C30_TurnsIsLlmCalls ==
    [][\A r \in Roles : \A i \in 1..Len(units[r]) :
          Resolves(r, i) =>
              LET u == units[r][i]
                  rec == Last(audit'[r])
              IN /\ rec.action = <<"task_completed">>
                 /\ rec.task = u.path.name
                 /\ rec.turn = u.llm_calls
                 /\ rec.turn = u.turn + 1
                 /\ rec.plan_written <=>
                       [name |-> PlanName(u.path.name), by |-> "loop"] \in plans']_vars

\* the model ended its turn on turn index 2: the task is in Done and its
\* task_completed record says turns: 3
C30_Witness ==
    /\ \E x \in TaskFiles("T1") : x.dir = "Done" /\ x.name = <<"T1">>
    /\ \E r \in Roles : \E k \in 1..Len(audit[r]) :
          /\ audit[r][k].action = <<"task_completed">>
          /\ audit[r][k].task = <<"T1">>
          /\ audit[r][k].turn = 3
          /\ audit[r][k].plan_written

-----------------------------------------------------------------------------
(* Properties of the turn budget *)

\* C31: a run of the loop makes at most MAX_TURNS LLM calls: a unit that has
\* made MAX_TURNS of them is no longer in the loop (it resolves, or fails),
\* and a turn is exactly one LLM call more.
C31_AtMostMaxTurnsCalls ==
    /\ [](\A u \in AllUnits :
            /\ u.llm_calls <= MAX_TURNS
            /\ u.pc = "turn" => u.llm_calls = u.turn /\ u.llm_calls < MAX_TURNS)
    /\ [][\A r \in Roles : \A i \in 1..Len(units[r]) :
            TurnOf(r, i) => units'[r][i].llm_calls = units[r][i].llm_calls + 1]_vars

\* the model asked for a tool in every one of MAX_TURNS turns: the unit has
\* left the loop, not completed, after MAX_TURNS LLM calls
C31_Witness ==
    \E u \in AllUnits : u.llm_calls = MAX_TURNS /\ u.pc = "plan" /\ ~u.completed

-----------------------------------------------------------------------------
(* Properties of the roles' queues *)

\* the paths role r's scan collects
Candidates(r) == {CollectCandidates(fs, r)[k] : k \in 1..Len(CollectCandidates(fs, r))}

\* the paths the claim says role r scans
Scanned(r, p) ==
    IF r = "cloud" THEN p.dir \in {"NA_email", "NA_social"}
    ELSE \/ p.dir \in {"NA", "NA_finance", "NA_files"}
         \/ p.dir = "Approved" /\ IsSendApproval(p.name)

\* C32: in every state the candidates of the cloud role are in
\* Needs_Action/email and Needs_Action/social only, those of the local role
\* in the Needs_Action root, Needs_Action/finance, Needs_Action/files and, by
\* the prefix SEND_APPROVAL_, Approved only; no path is a candidate of both
\* roles, and every unit of work was dispatched with a path of its own role.
C32_DisjointQueues ==
    /\ Candidates("cloud") \cap Candidates("local") = {}
    /\ \A r \in Roles : \A p \in Candidates(r) : Scanned(r, p)
    /\ \A r \in Roles : \A i \in 1..Len(units[r]) : Scanned(r, units[r][i].path)

\* both roles hold a unit of work at once: the cloud role's from
\* Needs_Action/email, the local role's from Approved
C32_Witness ==
    /\ \E i \in 1..Len(units["cloud"]) : units["cloud"][i].path.dir = "NA_email"
    /\ \E i \in 1..Len(units["local"]) : units["local"][i].path.dir = "Approved"

\* role r's unit i leaves the claim in this step
Claims(r, i) ==
    /\ units[r][i].pc = "claim"
    /\ Len(units'[r]) = Len(units[r])
    /\ units'[r][i].pc \in {"approval", "turn"}

\* C38: a claimed artifact goes to the direct execution exactly when the
\* role is local and its name starts with SEND_APPROVAL_, whatever directory
\* it was claimed from; the direct execution makes no LLM call and passes
\* no gate, and every other artifact is resolved after an LLM call.
C38_DirectPathIffLocalPrefix ==
    /\ [][\A r \in Roles : \A i \in 1..Len(units[r]) :
            Claims(r, i) =>
                (units'[r][i].pc = "approval"
                    <=> (r = "local" /\ IsSendApproval(units[r][i].path.name)))]_vars
    /\ [](\A r \in Roles : \A i \in 1..Len(units[r]) :
            units[r][i].pc = "approval" => (r = "local" /\ units[r][i].llm_calls = 0))
    /\ [][\A i \in 1..Len(units["local"]) : EndsApproval(i) => gated' = gated]_vars
    /\ [][\A r \in Roles : \A i \in 1..Len(units[r]) :
            Resolves(r, i) => units[r][i].llm_calls >= 1]_vars

\* the cloud role took the file SEND_APPROVAL_M1 of its queue through the
\* loop, where the LLM call failed; requeued at the root, it is on the local
\* role's direct execution
C38_Witness ==
    /\ \E k \in 1..Len(audit["cloud"]) :
          /\ audit["cloud"][k].action = <<"orchestrator_error">>
          /\ audit["cloud"][k].task = <<"SEND_APPROVAL_", "M1">>
    /\ \E i \in 1..Len(units["local"]) :
          /\ units["local"][i].pc = "approval"
          /\ units["local"][i].path = [dir |-> "NA", name |-> <<"SEND_APPROVAL_", "M1", RETRY, "1">>]

\* the artifacts of the vault, by the name they were created under
Ids(f) == {x.id : x \in f}

\* C39: no step destroys an artifact: every artifact that is in a queue
\* before a claim, a requeue, a reject or a resolve is in a queue after it,
\* and no two artifacts are ever at the same path.
C39_NoArtifactDestroyed ==
    /\ [][Ids(fs) \subseteq Ids(fs')]_vars
    /\ [](\A x, y \in fs : (x.dir = y.dir /\ x.name = y.name) => x = y)
    /\ [](Cardinality(Ids(fs)) = Cardinality(fs))

\* two artifacts of the local role's queues, the root and Approved, were
\* claimed in one scan: the task failed and is requeued under its retry
\* name, the approval file is resolved
C39_Witness ==
    /\ scans = 1
    /\ \E x \in fs : x.id = <<"T1">> /\ x.home = "NA" /\ x.dir = "NA" /\ x.name = <<"T1", RETRY, "1">>
    /\ \E y \in fs : y.id = <<"SEND_APPROVAL_", "M1">> /\ y.home = "Approved" /\ y.dir = "Done"

-----------------------------------------------------------------------------
(* Properties of the payment limit *)

\* the records the step appends to the local role's audit log
LocalRecords ==
    {NewRecords("local")[k] : k \in 1..Len(NewRecords("local"))}

\* the record of a post_payment invocation of at most the limit
SmallPayment(rec) ==
    rec.action = <<"post_payment">> /\ rec.input.amount <= PAYMENT_LIMIT

\* C35: in the local role a post_payment invocation of at most the limit,
\* the limit itself included, is not gated: the dispatcher executes it with
\* its inputs, no approval request is filed for it, and the loop goes on to
\* its next turn; only a payment of strictly more than the limit is replaced
\* by an approval request.
C35_AtLimitExecuted ==
    /\ [](\A c \in gated : (c.role = "local" \/ c.gate = "payment")
              => (c.tool = "post_payment" /\ c.input.amount > PAYMENT_LIMIT))
    /\ [][\A i \in 1..Len(units["local"]) :
            (/\ TurnOf("local", i)
             /\ LocalRecords # {}
             /\ \A rec \in LocalRecords : SmallPayment(rec))
            => /\ \A rec \in LocalRecords :
                     [role |-> "local", task |-> units["local"][i].path.name,
                      tool |-> "post_payment", input |-> rec.input] \in calls'
               /\ gated' = gated
               /\ fs' = fs
               /\ ~units'["local"][i].completed
               /\ InRange(units["local"][i].turn + 1)
                     => /\ units'["local"][i].pc = "turn"
                        /\ units'["local"][i].turn = units["local"][i].turn + 1]_vars

\* the local role's dispatcher has executed a payment of exactly the limit,
\* and the loop is in its next turn
C35_Witness ==
    \E i \in 1..Len(units["local"]) :
        /\ units["local"][i].pc = "turn"
        /\ units["local"][i].turn = 1
        /\ [role |-> "local", task |-> units["local"][i].path.name,
            tool |-> "post_payment", input |-> PayAt.input] \in calls
        /\ gated = {}

-----------------------------------------------------------------------------
(* Properties of the offered tools *)

\* C34: the tool schemas a loop offers to the LLM are exactly those of its
\* role's capability set: the cloud role is offered the CLOUD_SKILLS schemas
\* and no schema of a skill in SEND_TOOLS, the local role the schema of
\* every registered skill.
C34_OfferedSchemas ==
    \A r \in Roles : \A i \in 1..Len(units[r]) :
        LET u == units[r][i] IN
        (u.pc = "turn" \/ u.llm_calls > 0) =>
            /\ r = "cloud" => /\ u.tool_schemas = CLOUD_SKILLS
                              /\ u.tool_schemas \cap SEND_TOOLS = {}
            /\ r = "local" => u.tool_schemas = SKILL_REGISTRY

\* a loop of the cloud role has called the LLM with its schemas, and the
\* model asked for a tool that was not among them
C34_Witness ==
    \E i \in 1..Len(units["cloud"]) :
        /\ units["cloud"][i].llm_calls > 0
        /\ units["cloud"][i].tool_schemas = CLOUD_SKILLS
        /\ \E c \in gated : c.role = "cloud" /\ c.gate = "draft" /\ c.tool \in SEND_TOOLS

-----------------------------------------------------------------------------
(* Properties of a restart *)

\* the file a stopped process left behind
IsStale(x) == x.content.text = <<"stale">>

\* the file is never moved, renamed or replaced, and no unit of work has
\* read it
StaleUntouched ==
    /\ [][\A x \in fs : IsStale(x) => x \in fs']_vars
    /\ [](\A u \in AllUnits : u.content.text # <<"stale">>)

\* C33, as amended: the file left in In_Progress/<agent> is never moved,
\* renamed, resumed or retried by an action of either role, and while it is
\* there that agent's orchestrator dispatches no candidate of its name (the
\* other role's orchestrator, which lists its own In_Progress directory,
\* may dispatch one from its own queues).
C33_StaleStaysPut ==
    /\ StaleUntouched
    /\ [](\A x \in fs : \A r \in Roles :
            (IsStale(x) /\ x.dir = IN_PROGRESS_AGENT(r))
                => \A i \in 1..Len(units[r]) : units[r][i].path.name # x.name)

\* the local role has worked off its queue, in which T1.md was, and is idle:
\* the file left in In_Progress/local is there, and so is the new T2.md in
\* the root
C33_Witness ==
    /\ units = NoUnits
    /\ \E x \in fs : IsStale(x) /\ x.dir = "IP_local"
    /\ \E y \in fs : ~IsStale(y) /\ y.dir = "NA" /\ y.name = <<"T2">>
    /\ \E z \in fs : z.id = <<"T1">> /\ z.home = "NA" /\ z.dir = "Done"

\* C33, as claimed: the file left in In_Progress/<agent> is never moved,
\* renamed, resumed or retried, and while it is there no candidate of its
\* name, in any input queue, is dispatched.
C33_NoSameNameDispatch ==
    /\ StaleUntouched
    /\ [](\A x \in fs : IsStale(x) => \A u \in AllUnits : u.path.name # x.name)

-----------------------------------------------------------------------------
(* Properties of the held approvals *)

\* a name the payment gate or the turn-budget path gives to what it files
IsHeld(name) == name[1] \in {"PAYMENT_APPROVAL_", "MAX_TURNS_"}

\* C37: an approval file of the payment gate (PAYMENT_APPROVAL_*) or of the
\* turn-budget path (MAX_TURNS_*) is in Pending_Approvals or in Approved and
\* nowhere else, no orchestrator of either role ever dispatches or claims
\* it, no skill is executed on its behalf, and no payment above the limit is
\* executed.
C37_HeldNeverClaimed ==
    /\ \A x \in fs : IsHeld(x.name) => x.dir \in {"Pending_Approvals", "Approved"}
    /\ \A u \in AllUnits : ~IsHeld(u.path.name)
    /\ \A c \in calls :
          /\ ~IsHeld(c.task)
          /\ ~(c.tool = "post_payment" /\ c.input.amount > PAYMENT_LIMIT)

\* the request of a held payment has been approved and is in Approved, the
\* orchestrators are idle, and a scan of either role finds nothing to dispatch
C37_Witness ==
    /\ units = NoUnits
    /\ \E x \in fs : x.dir = "Approved" /\ x.name[1] = "PAYMENT_APPROVAL_"
    /\ \E c \in gated : c.gate = "payment" /\ c.input.amount > PAYMENT_LIMIT
    /\ \A r \in Roles : ToDispatch(fs, r) = <<>>

-----------------------------------------------------------------------------
(* Properties of the approval files *)

\* the SEND_APPROVAL_ files request_approval wrote: those of the draft-only
\* gate and those the model asked for under such a name
Handoffs == {x \in fs : IsSendApproval(x.id) /\ x.content.kind \in {"send_approval", "review"}}

\* the invocation the direct execution reads off a file
Embedded(x) ==
    [tool |-> ParsedTool(x.content.text), input |-> JsonLoads(ParsedInputs(x.content.text))]

\* C36: every SEND_APPROVAL_ file the system wrote that embeds a
\* post_payment embeds an amount of at most the limit, and the local role's
\* direct execution of such files executes no post_payment above the limit.
C36_HandoffPaymentsGated ==
    /\ \A x \in Handoffs :
          (Parses(x.content) /\ Embedded(x).tool = "post_payment")
              => Embedded(x).input.amount <= PAYMENT_LIMIT
    /\ \A c \in calls :
          (c.role = "local" /\ IsSendApproval(c.task) /\ c.tool = "post_payment")
              => c.input.amount <= PAYMENT_LIMIT

-----------------------------------------------------------------------------
(* Properties of the reader *)

\* a well-formed record: a JSON object whose ts is a date with a timezone
WellFormed(line) == line.json = "object" /\ line.ts = "aware"

\* C21: read_last_n_days never raises, and returns, in file order, exactly
\* the well-formed records of the file whose ts is within the window.
C21_ReadSkipsMalformed ==
    report.state # "none" =>
        /\ report.state = "returned"
        /\ report.records =
              SelectSeq(logfile, LAMBDA l : WellFormed(l) /\ l.day >= Now - report.days)

====
